---- MODULE Spec2Model ----
(***************************************************************************)
(* Model of the url-crawler task queue / worker pool                       *)
(* (internal/services/queue.go) with its two collaborators: the crawler    *)
(* (ValidateURL / AnalyzeURL) and the crawl storage (SaveCrawlResult /     *)
(* UpdateCrawlStatus / GetCrawlResult).                                    *)
(*                                                                         *)
(* Goroutines: the callers of the public methods (Clients) and the worker  *)
(* loops spawned by Start().  Every access to shared state (channel,       *)
(* mutex-guarded map, task object, storage row) is one step.               *)
(***************************************************************************)
EXTENDS Integers, Sequences, FiniteSets, TLC

\* ------------------------------------------------------------------ bounds
MaxIds    == 3     \* uuids the model distinguishes
MaxCalls  == 2     \* EnqueueURL/RequeueTask calls that get past their entry checks
MaxFaults == 1     \* storage calls that fail

WorkerIds   == {1, 2}            \* worker slots; a pool of n workers uses 1..n
BufferSizes == {1, 2}            \* configured buffer sizes
IdSet == 1..MaxIds               \* the uuids of EnqueueURL
EngineUuid(id) == MaxIds + id    \* the uuid AnalyzeURL gives its result for task id
StoreIds == 1..(2 * MaxIds)      \* the keys a row of crawl_results can have
Main == "main"                   \* the goroutine that owns the pool: Start(), Stop()
Handlers == {"h1"}               \* request goroutines: EnqueueURL(), RequeueTask()
Clients == Handlers \cup {Main}  \* goroutines calling the public methods
NoClient == "none"               \* q.mu is not write-locked

\* The handlers run the same code; the return values of this one are recorded.
Observed == "h1"
Recorded == {Main, Observed}

\* ------------------------------------------------------------------ targets
\* A URL is the sequence of its characters.
UrlA     == <<"h","t","t","p",":","/","/","a">>
UrlEmpty == <<>>
UrlFtp   == <<"f","t","p",":","/","/","a">>
UrlUpper == <<"H","T","T","P",":","/","/","a">>
UrlData  == <<"h","t","t","p",":","/","/","a","?","d","A","t","a",":">>
Targets  == {UrlA, UrlEmpty, UrlFtp, UrlUpper, UrlData}

UpperAlpha == <<"A","B","C","D","E","F","G","H","I","J","K","L","M",
                "N","O","P","Q","R","S","T","U","V","W","X","Y","Z">>
LowerAlpha == <<"a","b","c","d","e","f","g","h","i","j","k","l","m",
                "n","o","p","q","r","s","t","u","v","w","x","y","z">>

\* strings.ToLower: the lower-case letter of each upper-case letter, the
\* function on one character, then on a string
UpperToLower ==
    [ch \in {UpperAlpha[i] : i \in 1..Len(UpperAlpha)} |->
        LowerAlpha[CHOOSE i \in 1..Len(UpperAlpha) : UpperAlpha[i] = ch]]
LowerChar(ch) == IF ch \in DOMAIN UpperToLower THEN UpperToLower[ch] ELSE ch
ToLower(s) == [i \in 1..Len(s) |-> LowerChar(s[i])]

\* strings.HasPrefix(s, p)
HasPrefix(s, p) == Len(s) >= Len(p) /\ SubSeq(s, 1, Len(p)) = p

\* strings.Contains(s, p)
Contains(s, p) ==
    \E i \in 1..(Len(s) + 1) :
        i + Len(p) - 1 <= Len(s) /\ SubSeq(s, i, i + Len(p) - 1) = p

PrefixHttp  == <<"h","t","t","p",":","/","/">>
PrefixHttps == <<"h","t","t","p","s",":","/","/">>
maliciousPatterns ==
    { <<"j","a","v","a","s","c","r","i","p","t",":">>,
      <<"d","a","t","a",":">>,
      <<"f","i","l","e",":">>,
      <<"f","t","p",":">> }

\* variant: the patterns are looked for without lower-casing the target
ValidateURLCaseSensitive(targetURL) ==
    /\ targetURL # <<>>
    /\ (HasPrefix(targetURL, PrefixHttp) \/ HasPrefix(targetURL, PrefixHttps))
    /\ \A pattern \in maliciousPatterns : ~Contains(targetURL, pattern)

\* FirecrawlService.ValidateURL: TRUE iff it returns nil
ValidateURL(targetURL) ==
    /\ targetURL # <<>>
    /\ (HasPrefix(targetURL, PrefixHttp) \/ HasPrefix(targetURL, PrefixHttps))
    /\ LET lowerURL == ToLower(targetURL)
       IN  \A pattern \in maliciousPatterns : ~Contains(lowerURL, pattern)

\* ------------------------------------------------------------------ statuses
CrawlStatusQueued    == "queued"
CrawlStatusRunning   == "running"
CrawlStatusCompleted == "completed"
CrawlStatusError     == "error"

NoMsg          == "nil"                          \* error_message NULL
MsgQueueFull   == "Queue is full"
MsgSaveFailed  == "Failed to save crawl result"
EngineErrors   == {"boom"}                      \* err.Error() of AnalyzeURL
EngineOutcomes == {"ok"} \cup EngineErrors

\* ------------------------------------------------------------------ state
VARIABLES
    workers,      \* q.workers
    bufferSize,   \* q.bufferSize = cap(q.queue)
    running,      \* q.running
    cancelled,    \* q.ctx is done (q.cancel() was called)
    closed,       \* q.queue is closed
    mu,           \* client holding q.mu for writing over several steps, or NoClient
    wg,           \* counter of q.wg
    queue,        \* content of the channel q.queue: sequence of task handles
    tasks,        \* heap of CrawlTask objects; a handle is an index
    activeTasks,  \* q.activeTasks: id -> handle, 0 when the key is absent
    store,        \* crawl_results table: id -> row
    nextId,       \* next uuid
    wpc,          \* worker slot -> position in worker()/processTask()
    wtask,        \* worker slot -> handle of the task being processed, 0 if none
    wout,         \* worker slot -> what AnalyzeURL returned for that task, "" before
    engineLog,    \* handles of the tasks AnalyzeURL was called for, in call order
    pc,           \* client -> position in the method it runs
    cid,          \* client -> id local to the running call
    curl,         \* client -> url local to the running call
    ctask,        \* client -> handle of the task local to the running call
    ret,          \* Main and the observed handler -> what its last call returned
    panicked,     \* some goroutine panicked
    callsLeft,    \* calls that may still get past their entry checks
    faultsLeft    \* storage calls that may still fail

vars == <<workers, bufferSize, running, cancelled, closed, mu, wg, queue, tasks,
          activeTasks, store, nextId, wpc, wtask, wout, engineLog, pc, cid, curl, ctask,
          ret,
          panicked, callsLeft, faultsLeft>>

\* groups of variables, for the frame of each action
config   == <<workers, bufferSize>>
pool     == <<running, cancelled, closed, mu, wg>>
wlocals  == <<wpc, wtask, wout, engineLog>>
clocals  == <<cid, curl, ctask>>

NoRow == [present |-> FALSE, url |-> <<>>, status |-> "", err |-> NoMsg]
NoRet == [op |-> "none", err |-> "none", id |-> 0]

Ret(op, err, id) == [op |-> op, err |-> err, id |-> id]

\* ------------------------------------------------------------------ storage
\* CrawlStorage.SaveCrawlResult: INSERT ... ON DUPLICATE KEY UPDATE (url is not
\* among the updated columns)
SaveCrawlResult(s, id, url, status, msg) ==
    IF s[id].present
    THEN [s EXCEPT ![id].status = status, ![id].err = msg]
    ELSE [s EXCEPT ![id] = [present |-> TRUE, url |-> url, status |-> status, err |-> msg]]

\* CrawlStorage.UpdateCrawlStatus: UPDATE ... WHERE id = ? (no row: nothing changes)
UpdateCrawlStatus(s, id, status, msg) ==
    IF s[id].present
    THEN [s EXCEPT ![id].status = status, ![id].err = msg]
    ELSE s

\* CrawlStorage.DeleteCrawlResults: DELETE ... WHERE id IN (ids)
DeleteCrawlResults(s, ids) == [i \in DOMAIN s |-> IF i \in ids THEN NoRow ELSE s[i]]

\* result.RowsAffected() of that DELETE
RowsAffected(s, ids) == Cardinality({i \in ids : s[i].present})

\* db.Exec / db.QueryRow of one storage call: ok, or an error (the statement had
\* no effect)
DbCall(ok) ==
    /\ ok \/ faultsLeft > 0
    /\ faultsLeft' = IF ok THEN faultsLeft ELSE faultsLeft - 1

\* ------------------------------------------------------------------ init
\* NewQueueServiceWithConfig with cfg.Workers = w and cfg.BufferSize = b; the
\* model lets `calls` calls pass their entry and `faults` storage calls fail
InitState(w, b, calls, faults) ==
    /\ workers = w
    /\ bufferSize = b
    /\ running = FALSE
    /\ cancelled = FALSE
    /\ closed = FALSE
    /\ mu = NoClient
    /\ wg = 0
    /\ queue = <<>>
    /\ tasks = <<>>
    /\ activeTasks = [i \in IdSet |-> 0]
    /\ store = [i \in StoreIds |-> NoRow]
    /\ nextId = 1
    /\ wpc = [x \in WorkerIds |-> "none"]
    /\ wtask = [x \in WorkerIds |-> 0]
    /\ wout = [x \in WorkerIds |-> ""]
    /\ engineLog = <<>>
    /\ pc = [c \in Clients |-> "idle"]
    /\ cid = [c \in Clients |-> 0]
    /\ curl = [c \in Clients |-> <<>>]
    /\ ctask = [c \in Clients |-> 0]
    /\ ret = [c \in Recorded |-> NoRet]
    /\ panicked = FALSE
    /\ callsLeft = calls
    /\ faultsLeft = faults

Init == \E w \in WorkerIds, b \in BufferSizes : InitState(w, b, MaxCalls, MaxFaults)

\* ------------------------------------------------------------------ callers
\* a call of c returns r
SetRet(c, r) == ret' = IF c \in Recorded THEN [ret EXCEPT ![c] = r] ELSE ret

\* the call of c returns: its locals are gone
ClearLocals(c) ==
    /\ cid' = [cid EXCEPT ![c] = 0]
    /\ curl' = [curl EXCEPT ![c] = <<>>]
    /\ ctask' = [ctask EXCEPT ![c] = 0]

Idle(c) == pc[c] = "idle"

\* ------------------------------------------------------------------ locking
\* q.mu.Lock() / q.mu.RLock() can be taken: no Stop() is holding the write lock.
\* Every other critical section is a single step.
MuFree == mu = NoClient

\* variant: Stop() does not wait for the worker loops
WgWaitSkipped == TRUE

\* q.wg.Wait() returns
WgWaitDone == wg = 0

\* a live worker loop: spawned and not yet returned from worker()
Live(w) == wpc[w] \notin {"none", "exited"}

\* ------------------------------------------------------------------ Start
\* QueueService.Start
Start(c) ==
    /\ Idle(c)
    /\ MuFree
    /\ IF running
       THEN /\ SetRet(c, Ret("Start", "noop", 0))
            /\ UNCHANGED <<running, wg, wlocals>>
       ELSE /\ running' = TRUE
            /\ wg' = wg + workers
            /\ wpc' = [w \in WorkerIds |-> IF w <= workers THEN "select" ELSE wpc[w]]
            /\ wtask' = [w \in WorkerIds |-> IF w <= workers THEN 0 ELSE wtask[w]]
            /\ wout' = [w \in WorkerIds |-> IF w <= workers THEN "" ELSE wout[w]]
            /\ UNCHANGED engineLog
            /\ SetRet(c, Ret("Start", "none", 0))
    /\ UNCHANGED <<config, cancelled, closed, mu, queue, tasks, activeTasks, store,
                   nextId, pc, clocals, panicked, callsLeft, faultsLeft>>

\* ------------------------------------------------------------------ Stop
\* variant: Stop() does not look at q.running
StopBeginNoCheck(c) ==
    /\ Idle(c)
    /\ MuFree
    /\ running' = FALSE
    /\ cancelled' = TRUE
    /\ IF closed
       THEN /\ panicked' = TRUE
            /\ pc' = [pc EXCEPT ![c] = "crashed"]
            /\ SetRet(c, Ret("Stop", "panic", 0))
            /\ UNCHANGED <<closed, mu>>
       ELSE /\ closed' = TRUE
            /\ mu' = c
            /\ pc' = [pc EXCEPT ![c] = "s_wait"]
            /\ SetRet(c, NoRet)
            /\ UNCHANGED panicked
    /\ UNCHANGED <<config, wg, queue, tasks, activeTasks, store, nextId, wlocals,
                   clocals, callsLeft, faultsLeft>>

\* QueueService.Stop up to q.wg.Wait(): lock, running = false, cancel, close.
\* close() of a closed channel panics: the deferred Unlock releases q.mu and,
\* nothing recovering the panic of Stop's caller, the process ends.
StopBegin(c) ==
    /\ Idle(c)
    /\ MuFree
    /\ IF ~running
       THEN /\ SetRet(c, Ret("Stop", "noop", 0))
            /\ UNCHANGED <<running, cancelled, closed, mu, pc, panicked>>
       ELSE /\ running' = FALSE
            /\ cancelled' = TRUE
            /\ IF closed
               THEN /\ panicked' = TRUE
                    /\ pc' = [pc EXCEPT ![c] = "crashed"]
                    /\ SetRet(c, Ret("Stop", "panic", 0))
                    /\ UNCHANGED <<closed, mu>>
               ELSE /\ closed' = TRUE
                    /\ mu' = c
                    /\ pc' = [pc EXCEPT ![c] = "s_wait"]
                    /\ SetRet(c, NoRet)
                    /\ UNCHANGED panicked
    /\ UNCHANGED <<config, wg, queue, tasks, activeTasks, store, nextId, wlocals,
                   clocals, callsLeft, faultsLeft>>

\* QueueService.Stop from q.wg.Wait() to the return (deferred Unlock)
StopReturn(c) ==
    /\ pc[c] = "s_wait"
    /\ WgWaitDone
    /\ mu' = NoClient
    /\ pc' = [pc EXCEPT ![c] = "idle"]
    /\ SetRet(c, Ret("Stop", "none", 0))
    /\ UNCHANGED <<config, running, cancelled, closed, wg, queue, tasks, activeTasks,
                   store, nextId, wlocals, clocals, panicked, callsLeft, faultsLeft>>

\* ------------------------------------------------------------------ worker
\* variant: a failed update to `running` ends the processing of the task
WorkerReceiveAborts(w, ok) ==
    /\ wpc[w] = "select"
    /\ queue # <<>>
    /\ DbCall(ok)
    /\ queue' = Tail(queue)
    /\ tasks' = [tasks EXCEPT ![Head(queue)].Status = CrawlStatusRunning]
    /\ store' = IF ok
                THEN UpdateCrawlStatus(store, tasks[Head(queue)].ID, CrawlStatusRunning, NoMsg)
                ELSE store
    /\ wtask' = [wtask EXCEPT ![w] = IF ok THEN Head(queue) ELSE 0]
    /\ wpc' = [wpc EXCEPT ![w] = IF ok THEN "analyze" ELSE "select"]
    /\ UNCHANGED <<config, pool, activeTasks, nextId, wout, engineLog, pc, clocals, ret,
                   panicked, callsLeft>>

\* worker(): case task, ok := <-q.queue with ok = true, and the entry of
\* processTask: task.Status = running, then
\* q.storage.UpdateCrawlStatus(task.ID, running, nil), whose failure is only logged
WorkerReceive(w, ok) ==
    /\ wpc[w] = "select"
    /\ queue # <<>>
    /\ DbCall(ok)
    /\ wtask' = [wtask EXCEPT ![w] = Head(queue)]
    /\ queue' = Tail(queue)
    /\ tasks' = [tasks EXCEPT ![Head(queue)].Status = CrawlStatusRunning]
    /\ store' = IF ok
                THEN UpdateCrawlStatus(store, tasks[Head(queue)].ID, CrawlStatusRunning, NoMsg)
                ELSE store
    /\ wpc' = [wpc EXCEPT ![w] = "analyze"]
    /\ UNCHANGED <<config, pool, activeTasks, nextId, wout, engineLog, pc, clocals, ret,
                   panicked,
                   callsLeft>>

\* worker(): <-q.queue with ok = false (closed and drained): return, wg.Done()
WorkerQueueClosed(w) ==
    /\ wpc[w] = "select"
    /\ queue = <<>>
    /\ closed
    /\ wpc' = [wpc EXCEPT ![w] = "exited"]
    /\ wg' = wg - 1
    /\ UNCHANGED <<config, running, cancelled, closed, mu, queue, tasks, activeTasks,
                   store, nextId, wtask, wout, engineLog, pc, clocals, ret, panicked,
                   callsLeft,
                   faultsLeft>>

\* worker(): case <-q.ctx.Done(): return, wg.Done()
WorkerCancelled(w) ==
    /\ wpc[w] = "select"
    /\ cancelled
    /\ wpc' = [wpc EXCEPT ![w] = "exited"]
    /\ wg' = wg - 1
    /\ UNCHANGED <<config, running, cancelled, closed, mu, queue, tasks, activeTasks,
                   store, nextId, wtask, wout, engineLog, pc, clocals, ret, panicked,
                   callsLeft,
                   faultsLeft>>

\* variant: the engine's error text is replaced by a fixed message
PersistOutcomeFixedMsg(s, task, out) ==
    IF out = "ok"
    THEN SaveCrawlResult(s, task.ID, task.URL, CrawlStatusCompleted, NoMsg)
    ELSE UpdateCrawlStatus(s, task.ID, CrawlStatusError, MsgSaveFailed)

\* AnalyzeURL on success: the result it returns, under the uuid it generated
AnalyzeURL(targetURL, uuid) ==
    [ID |-> uuid, URL |-> targetURL, Status |-> CrawlStatusCompleted]

\* variant: the engine's result is saved under the id the engine gave it
PersistOutcomeKeepsEngineId(s, task, out) ==
    IF out = "ok"
    THEN LET result == [AnalyzeURL(task.URL, EngineUuid(task.ID))
                            EXCEPT !.Status = CrawlStatusCompleted]
         IN  SaveCrawlResult(s, result.ID, result.URL, result.Status, NoMsg)
    ELSE UpdateCrawlStatus(s, task.ID, CrawlStatusError, out)

\* what processTask persists once AnalyzeURL returned `out`:
\* on error UpdateCrawlStatus(error, err.Error()); on success SaveCrawlResult of
\* the result with result.ID = task.ID and result.Status = completed
PersistOutcome(s, task, out) ==
    IF out = "ok"
    THEN LET result == [AnalyzeURL(task.URL, EngineUuid(task.ID))
                            EXCEPT !.ID = task.ID, !.Status = CrawlStatusCompleted]
         IN  SaveCrawlResult(s, result.ID, result.URL, result.Status, NoMsg)
    ELSE UpdateCrawlStatus(s, task.ID, CrawlStatusError, out)

\* variant: processTask takes q.mu before the engine call and holds it to its end
ProcessAnalyzeUnderLock(w, out, ok) ==
    /\ wpc[w] = "analyze"
    /\ MuFree
    /\ DbCall(ok)
    /\ wout' = [wout EXCEPT ![w] = out]
    /\ engineLog' = Append(engineLog, wtask[w])
    /\ store' = IF ok THEN PersistOutcome(store, tasks[wtask[w]], out) ELSE store
    /\ wpc' = [wpc EXCEPT ![w] = IF out = "ok" /\ ~ok THEN "savefail" ELSE "remove"]
    /\ UNCHANGED <<config, pool, queue, tasks, activeTasks, nextId, wtask, pc, clocals,
                   ret, panicked, callsLeft>>

\* variant: a failed engine call is tried again
ProcessAnalyzeRetries(w, out, ok) ==
    /\ wpc[w] = "analyze"
    /\ DbCall(ok)
    /\ wout' = [wout EXCEPT ![w] = out]
    /\ engineLog' = Append(engineLog, wtask[w])
    /\ store' = IF ok THEN PersistOutcome(store, tasks[wtask[w]], out) ELSE store
    /\ wpc' = [wpc EXCEPT ![w] = IF out = "ok"
                                  THEN (IF ok THEN "remove" ELSE "savefail")
                                  ELSE "analyze"]
    /\ UNCHANGED <<config, pool, queue, tasks, activeTasks, nextId, wtask, pc, clocals,
                   ret, panicked, callsLeft>>

\* processTask: q.crawler.AnalyzeURL(task.URL) returns `out`, then the outcome is
\* persisted; a failed UpdateCrawlStatus is only logged, a failed SaveCrawlResult
\* leads to the second update
ProcessAnalyze(w, out, ok) ==
    /\ wpc[w] = "analyze"
    /\ DbCall(ok)
    /\ wout' = [wout EXCEPT ![w] = out]
    /\ engineLog' = Append(engineLog, wtask[w])
    /\ store' = IF ok THEN PersistOutcome(store, tasks[wtask[w]], out) ELSE store
    /\ wpc' = [wpc EXCEPT ![w] = IF out = "ok" /\ ~ok THEN "savefail" ELSE "remove"]
    /\ UNCHANGED <<config, pool, queue, tasks, activeTasks, nextId, wtask, pc, clocals,
                   ret, panicked, callsLeft>>

\* variant: a failed SaveCrawlResult is logged and nothing else is written
ProcessSaveFailedOnlyLogs(w, ok) ==
    /\ wpc[w] = "savefail"
    /\ DbCall(ok)
    /\ wpc' = [wpc EXCEPT ![w] = "remove"]
    /\ UNCHANGED <<config, pool, queue, tasks, activeTasks, store, nextId, wtask, wout,
                   engineLog, pc, clocals, ret, panicked, callsLeft>>

\* processTask: SaveCrawlResult failed: UpdateCrawlStatus(error, "Failed to save
\* crawl result"), its own error ignored
ProcessSaveFailed(w, ok) ==
    /\ wpc[w] = "savefail"
    /\ DbCall(ok)
    /\ store' = IF ok
                THEN UpdateCrawlStatus(store, tasks[wtask[w]].ID, CrawlStatusError, MsgSaveFailed)
                ELSE store
    /\ wpc' = [wpc EXCEPT ![w] = "remove"]
    /\ UNCHANGED <<config, pool, queue, tasks, activeTasks, nextId, wtask, wout, engineLog,
                   pc,
                   clocals, ret, panicked, callsLeft>>

\* variant: processTask returns without deleting the in-flight entry
ProcessRemoveKeepsEntry(w) ==
    /\ wpc[w] = "remove"
    /\ MuFree
    /\ wpc' = [wpc EXCEPT ![w] = "select"]
    /\ wtask' = [wtask EXCEPT ![w] = 0]
    /\ wout' = [wout EXCEPT ![w] = ""]
    /\ UNCHANGED engineLog
    /\ UNCHANGED <<config, pool, queue, tasks, activeTasks, store, nextId, pc, clocals,
                   ret, panicked, callsLeft, faultsLeft>>

\* processTask: q.mu.Lock(); delete(q.activeTasks, task.ID); q.mu.Unlock();
\* back to the select of worker()
ProcessRemove(w) ==
    /\ wpc[w] = "remove"
    /\ MuFree
    /\ activeTasks' = [activeTasks EXCEPT ![tasks[wtask[w]].ID] = 0]
    /\ wpc' = [wpc EXCEPT ![w] = "select"]
    /\ wtask' = [wtask EXCEPT ![w] = 0]
    /\ wout' = [wout EXCEPT ![w] = ""]
    /\ UNCHANGED engineLog
    /\ UNCHANGED <<config, pool, queue, tasks, store, nextId, pc, clocals, ret,
                   panicked, callsLeft, faultsLeft>>

\* one step of worker loop w; the engine answers one of `outs`
WorkerStep(w, outs) ==
    \/ \E ok \in BOOLEAN : WorkerReceive(w, ok)
    \/ WorkerQueueClosed(w)
    \/ WorkerCancelled(w)
    \/ \E out \in outs, ok \in BOOLEAN : ProcessAnalyze(w, out, ok)
    \/ \E ok \in BOOLEAN : ProcessSaveFailed(w, ok)
    \/ ProcessRemove(w)

\* ------------------------------------------------------------------ channel
\* variant: the send is refused one slot early
ChanFullEarly == Len(queue) >= bufferSize - 1

\* the non-blocking send `case q.queue <- task` cannot proceed: the buffer is full
ChanFull == Len(queue) >= bufferSize

\* variant: the task is created with status running
NewTaskRunning(id, url) == [ID |-> id, URL |-> url, Status |-> CrawlStatusRunning]

\* a new CrawlTask{ID: id, URL: url, Status: queued} on the heap
NewTask(id, url) == [ID |-> id, URL |-> url, Status |-> CrawlStatusQueued]

\* ------------------------------------------------------------------ EnqueueURL
\* variant: the initial record is saved before the target is validated
EnqueueBeginSaveFirst(c, url, ok) ==
    /\ Idle(c)
    /\ callsLeft > 0
    /\ nextId <= MaxIds
    /\ callsLeft' = callsLeft - 1
    /\ nextId' = nextId + 1
    /\ DbCall(ok)
    /\ store' = IF ok
                THEN SaveCrawlResult(store, nextId, url, CrawlStatusQueued, NoMsg)
                ELSE store
    /\ IF ok /\ ValidateURL(url)
       THEN /\ pc' = [pc EXCEPT ![c] = "e_add"]
            /\ cid' = [cid EXCEPT ![c] = nextId]
            /\ curl' = [curl EXCEPT ![c] = url]
            /\ SetRet(c, NoRet)
            /\ UNCHANGED ctask
       ELSE /\ SetRet(c, Ret("Enqueue", IF ok THEN "invalid" ELSE "save_failed", 0))
            /\ UNCHANGED <<pc, clocals>>
    /\ UNCHANGED <<config, pool, queue, tasks, activeTasks, wlocals, panicked>>

\* variant: the error of the initial SaveCrawlResult is not examined
EnqueueBeginIgnoresSaveError(c, url, ok) ==
    /\ Idle(c)
    /\ IF ~ValidateURL(url)
       THEN /\ ok
            /\ SetRet(c, Ret("Enqueue", "invalid", 0))
            /\ UNCHANGED <<store, nextId, pc, clocals, callsLeft, faultsLeft>>
       ELSE /\ callsLeft > 0
            /\ nextId <= MaxIds
            /\ callsLeft' = callsLeft - 1
            /\ nextId' = nextId + 1
            /\ DbCall(ok)
            /\ store' = IF ok
                        THEN SaveCrawlResult(store, nextId, url, CrawlStatusQueued, NoMsg)
                        ELSE store
            /\ pc' = [pc EXCEPT ![c] = "e_add"]
            /\ cid' = [cid EXCEPT ![c] = nextId]
            /\ curl' = [curl EXCEPT ![c] = url]
            /\ SetRet(c, NoRet)
            /\ UNCHANGED ctask
    /\ UNCHANGED <<config, pool, queue, tasks, activeTasks, wlocals, panicked>>

\* EnqueueURL up to the SaveCrawlResult of the initial record:
\* ValidateURL, uuid.New(), SaveCrawlResult(queued)
EnqueueBegin(c, url, ok) ==
    /\ Idle(c)
    /\ IF ~ValidateURL(url)
       THEN /\ ok
            /\ SetRet(c, Ret("Enqueue", "invalid", 0))
            /\ UNCHANGED <<store, nextId, pc, clocals, callsLeft, faultsLeft>>
       ELSE /\ callsLeft > 0
            /\ nextId <= MaxIds
            /\ callsLeft' = callsLeft - 1
            /\ nextId' = nextId + 1
            /\ DbCall(ok)
            /\ IF ok
               THEN /\ store' = SaveCrawlResult(store, nextId, url, CrawlStatusQueued, NoMsg)
                    /\ pc' = [pc EXCEPT ![c] = "e_add"]
                    /\ cid' = [cid EXCEPT ![c] = nextId]
                    /\ curl' = [curl EXCEPT ![c] = url]
                    /\ SetRet(c, NoRet)
                    /\ UNCHANGED ctask
               ELSE /\ SetRet(c, Ret("Enqueue", "save_failed", 0))
                    /\ UNCHANGED <<store, pc, clocals>>
    /\ UNCHANGED <<config, pool, queue, tasks, activeTasks, wlocals, panicked>>

\* variant: the task is created but not entered into q.activeTasks
EnqueueAddNoInsert(c) ==
    /\ pc[c] = "e_add"
    /\ MuFree
    /\ tasks' = Append(tasks, NewTask(cid[c], curl[c]))
    /\ ctask' = [ctask EXCEPT ![c] = Len(tasks) + 1]
    /\ pc' = [pc EXCEPT ![c] = "e_send"]
    /\ UNCHANGED <<config, pool, queue, activeTasks, store, nextId, wlocals, cid, curl,
                   ret, panicked, callsLeft, faultsLeft>>

\* EnqueueURL: q.mu.Lock(); q.activeTasks[task.ID] = task; q.mu.Unlock()
EnqueueAdd(c) ==
    /\ pc[c] = "e_add"
    /\ MuFree
    /\ tasks' = Append(tasks, NewTask(cid[c], curl[c]))
    /\ activeTasks' = [activeTasks EXCEPT ![cid[c]] = Len(tasks) + 1]
    /\ ctask' = [ctask EXCEPT ![c] = Len(tasks) + 1]
    /\ pc' = [pc EXCEPT ![c] = "e_send"]
    /\ UNCHANGED <<config, pool, queue, store, nextId, wlocals, cid, curl, ret,
                   panicked, callsLeft, faultsLeft>>

\* variant: the task is put at the front of the buffer
EnqueueSendInFront(c) ==
    /\ pc[c] = "e_send"
    /\ IF closed
       THEN /\ panicked' = TRUE
            /\ pc' = [pc EXCEPT ![c] = "idle"]
            /\ SetRet(c, Ret("Enqueue", "panic", cid[c]))
            /\ ClearLocals(c)
            /\ UNCHANGED queue
       ELSE IF ChanFull
       THEN /\ pc' = [pc EXCEPT ![c] = "e_del"]
            /\ UNCHANGED <<queue, ret, panicked, clocals>>
       ELSE /\ queue' = <<ctask[c]>> \o queue
            /\ pc' = [pc EXCEPT ![c] = "idle"]
            /\ SetRet(c, Ret("Enqueue", "none", cid[c]))
            /\ ClearLocals(c)
            /\ UNCHANGED panicked
    /\ UNCHANGED <<config, pool, tasks, activeTasks, store, nextId, wlocals, callsLeft,
                   faultsLeft>>

\* EnqueueURL: select { case q.queue <- task: ... default: ... }.
\* A send on a closed channel panics; the HTTP layer's Recover middleware
\* catches the panic of a handler, the other goroutines go on.
EnqueueSend(c) ==
    /\ pc[c] = "e_send"
    /\ IF closed
       THEN /\ panicked' = TRUE
            /\ pc' = [pc EXCEPT ![c] = "idle"]
            /\ SetRet(c, Ret("Enqueue", "panic", cid[c]))
            /\ ClearLocals(c)
            /\ UNCHANGED queue
       ELSE IF ChanFull
       THEN /\ pc' = [pc EXCEPT ![c] = "e_del"]
            /\ UNCHANGED <<queue, ret, panicked, clocals>>
       ELSE /\ queue' = Append(queue, ctask[c])
            /\ pc' = [pc EXCEPT ![c] = "idle"]
            /\ SetRet(c, Ret("Enqueue", "none", cid[c]))
            /\ ClearLocals(c)
            /\ UNCHANGED panicked
    /\ UNCHANGED <<config, pool, tasks, activeTasks, store, nextId, wlocals, callsLeft,
                   faultsLeft>>

\* EnqueueURL, default branch: q.mu.Lock(); delete(q.activeTasks, task.ID); q.mu.Unlock()
EnqueueFullDelete(c) ==
    /\ pc[c] = "e_del"
    /\ MuFree
    /\ activeTasks' = [activeTasks EXCEPT ![cid[c]] = 0]
    /\ pc' = [pc EXCEPT ![c] = "e_upd"]
    /\ UNCHANGED <<config, pool, queue, tasks, store, nextId, wlocals, clocals, ret,
                   panicked, callsLeft, faultsLeft>>

\* variant: the rejection is returned without touching the record
EnqueueFullReturnKeepsStatus(c, ok) ==
    /\ pc[c] = "e_upd"
    /\ DbCall(ok)
    /\ pc' = [pc EXCEPT ![c] = "idle"]
    /\ SetRet(c, Ret("Enqueue", "queue_full", cid[c]))
    /\ ClearLocals(c)
    /\ UNCHANGED <<config, pool, queue, tasks, activeTasks, store, nextId, wlocals,
                   panicked, callsLeft>>

\* EnqueueURL, default branch: UpdateCrawlStatus(error, "Queue is full") with its
\* error ignored, then return the queue-full error
EnqueueFullReturn(c, ok) ==
    /\ pc[c] = "e_upd"
    /\ DbCall(ok)
    /\ store' = IF ok
                THEN UpdateCrawlStatus(store, cid[c], CrawlStatusError, MsgQueueFull)
                ELSE store
    /\ pc' = [pc EXCEPT ![c] = "idle"]
    /\ SetRet(c, Ret("Enqueue", "queue_full", cid[c]))
    /\ ClearLocals(c)
    /\ UNCHANGED <<config, pool, queue, tasks, activeTasks, nextId, wlocals, panicked,
                   callsLeft>>

\* ------------------------------------------------------------------ GetActiveTask
\* QueueService.GetActiveTask: RLock, look the id up, return (task, exists).
\* It changes nothing: what a call returns in the current state.
GetActiveTask(id) ==
    [found  |-> activeTasks[id] # 0,
     status |-> IF activeTasks[id] # 0 THEN tasks[activeTasks[id]].Status ELSE ""]

\* QueueService.GetQueueStats: what a call returns in the current state
GetQueueStats ==
    [queue_length |-> Len(queue),
     active_tasks |-> Cardinality({i \in IdSet : activeTasks[i] # 0}),
     workers      |-> workers,
     running      |-> running]

\* ------------------------------------------------------------------ RequeueTask
\* variant: the result of the lookup is not examined for a missing row
RequeueBeginNoLookup(c, id, ok) ==
    /\ Idle(c)
    /\ DbCall(ok)
    /\ IF ~ok
       THEN /\ SetRet(c, Ret("Requeue", "get_failed", id))
            /\ UNCHANGED <<pc, clocals, callsLeft>>
       ELSE /\ callsLeft > 0
            /\ callsLeft' = callsLeft - 1
            /\ pc' = [pc EXCEPT ![c] = "r_upd"]
            /\ cid' = [cid EXCEPT ![c] = id]
            /\ curl' = [curl EXCEPT ![c] = store[id].url]
            /\ SetRet(c, NoRet)
            /\ UNCHANGED ctask
    /\ UNCHANGED <<config, pool, queue, tasks, activeTasks, store, nextId, wlocals,
                   panicked>>

\* RequeueTask: q.storage.GetCrawlResult(id); an error (no row, or the query
\* failing) is returned wrapped
RequeueBegin(c, id, ok) ==
    /\ Idle(c)
    /\ DbCall(ok)
    /\ IF ~ok
       THEN /\ SetRet(c, Ret("Requeue", "get_failed", id))
            /\ UNCHANGED <<pc, clocals, callsLeft>>
       ELSE IF ~store[id].present
       THEN /\ SetRet(c, Ret("Requeue", "not_found", id))
            /\ UNCHANGED <<pc, clocals, callsLeft>>
       ELSE /\ callsLeft > 0
            /\ callsLeft' = callsLeft - 1
            /\ pc' = [pc EXCEPT ![c] = "r_upd"]
            /\ cid' = [cid EXCEPT ![c] = id]
            /\ curl' = [curl EXCEPT ![c] = store[id].url]
            /\ SetRet(c, NoRet)
            /\ UNCHANGED ctask
    /\ UNCHANGED <<config, pool, queue, tasks, activeTasks, store, nextId, wlocals,
                   panicked>>

\* RequeueTask: UpdateCrawlStatus(id, queued, nil); its error is returned
RequeueUpdate(c, ok) ==
    /\ pc[c] = "r_upd"
    /\ DbCall(ok)
    /\ IF ok
       THEN /\ store' = UpdateCrawlStatus(store, cid[c], CrawlStatusQueued, NoMsg)
            /\ pc' = [pc EXCEPT ![c] = "r_add"]
            /\ UNCHANGED <<ret, clocals>>
       ELSE /\ pc' = [pc EXCEPT ![c] = "idle"]
            /\ SetRet(c, Ret("Requeue", "update_failed", cid[c]))
            /\ ClearLocals(c)
            /\ UNCHANGED store
    /\ UNCHANGED <<config, pool, queue, tasks, activeTasks, nextId, wlocals, panicked,
                   callsLeft>>

\* RequeueTask: q.mu.Lock(); q.activeTasks[task.ID] = task; q.mu.Unlock()
RequeueAdd(c) ==
    /\ pc[c] = "r_add"
    /\ MuFree
    /\ tasks' = Append(tasks, NewTask(cid[c], curl[c]))
    /\ activeTasks' = [activeTasks EXCEPT ![cid[c]] = Len(tasks) + 1]
    /\ ctask' = [ctask EXCEPT ![c] = Len(tasks) + 1]
    /\ pc' = [pc EXCEPT ![c] = "r_send"]
    /\ UNCHANGED <<config, pool, queue, store, nextId, wlocals, cid, curl, ret,
                   panicked, callsLeft, faultsLeft>>

\* RequeueTask: select { case q.queue <- task: return nil; default: ... }
RequeueSend(c) ==
    /\ pc[c] = "r_send"
    /\ IF closed
       THEN /\ panicked' = TRUE
            /\ pc' = [pc EXCEPT ![c] = "idle"]
            /\ SetRet(c, Ret("Requeue", "panic", cid[c]))
            /\ ClearLocals(c)
            /\ UNCHANGED queue
       ELSE IF ChanFull
       THEN /\ pc' = [pc EXCEPT ![c] = "r_del"]
            /\ UNCHANGED <<queue, ret, panicked, clocals>>
       ELSE /\ queue' = Append(queue, ctask[c])
            /\ pc' = [pc EXCEPT ![c] = "idle"]
            /\ SetRet(c, Ret("Requeue", "none", cid[c]))
            /\ ClearLocals(c)
            /\ UNCHANGED panicked
    /\ UNCHANGED <<config, pool, tasks, activeTasks, store, nextId, wlocals, callsLeft,
                   faultsLeft>>

\* RequeueTask, default branch: q.mu.Lock(); delete(q.activeTasks, task.ID); q.mu.Unlock()
RequeueFullDelete(c) ==
    /\ pc[c] = "r_del"
    /\ MuFree
    /\ activeTasks' = [activeTasks EXCEPT ![cid[c]] = 0]
    /\ pc' = [pc EXCEPT ![c] = "r_err"]
    /\ UNCHANGED <<config, pool, queue, tasks, store, nextId, wlocals, clocals, ret,
                   panicked, callsLeft, faultsLeft>>

\* variant: the rejected requeue is returned without touching the record
RequeueFullReturnKeepsStatus(c, ok) ==
    /\ pc[c] = "r_err"
    /\ DbCall(ok)
    /\ pc' = [pc EXCEPT ![c] = "idle"]
    /\ SetRet(c, Ret("Requeue", "queue_full", cid[c]))
    /\ ClearLocals(c)
    /\ UNCHANGED <<config, pool, queue, tasks, activeTasks, store, nextId, wlocals,
                   panicked, callsLeft>>

\* RequeueTask, default branch: UpdateCrawlStatus(error, "Queue is full") with its
\* error ignored, then return the queue-full error
RequeueFullReturn(c, ok) ==
    /\ pc[c] = "r_err"
    /\ DbCall(ok)
    /\ store' = IF ok
                THEN UpdateCrawlStatus(store, cid[c], CrawlStatusError, MsgQueueFull)
                ELSE store
    /\ pc' = [pc EXCEPT ![c] = "idle"]
    /\ SetRet(c, Ret("Requeue", "queue_full", cid[c]))
    /\ ClearLocals(c)
    /\ UNCHANGED <<config, pool, queue, tasks, activeTasks, nextId, wlocals, panicked,
                   callsLeft>>

\* ------------------------------------------------------------------ system
\* the goroutine that owns the pool
MainStep ==
    \/ Start(Main)
    \/ StopBegin(Main)
    \/ StopReturn(Main)

\* one step of handler c inside EnqueueURL, or its call of it with one of `targets`
EnqueueStep(c, targets) ==
    \/ \E url \in targets, ok \in BOOLEAN : EnqueueBegin(c, url, ok)
    \/ EnqueueAdd(c)
    \/ EnqueueSend(c)
    \/ EnqueueFullDelete(c)
    \/ \E ok \in BOOLEAN : EnqueueFullReturn(c, ok)

\* one step of handler c inside RequeueTask, or its call of it
RequeueStep(c) ==
    \/ \E id \in IdSet, ok \in BOOLEAN : RequeueBegin(c, id, ok)
    \/ \E ok \in BOOLEAN : RequeueUpdate(c, ok)
    \/ RequeueAdd(c)
    \/ RequeueSend(c)
    \/ RequeueFullDelete(c)
    \/ \E ok \in BOOLEAN : RequeueFullReturn(c, ok)

\* the process is alive: no unrecovered panic
Alive == \A c \in Clients : pc[c] # "crashed"

Next ==
    \/ Alive /\ MainStep
    \/ \E c \in Handlers : Alive /\ EnqueueStep(c, Targets)
    \/ \E c \in Handlers : Alive /\ RequeueStep(c)
    \/ \E w \in WorkerIds : Alive /\ WorkerStep(w, EngineOutcomes)

Spec == Init /\ [][Next]_vars

\* ------------------------------------------------------------------ fair runs
\* worker loop w with an engine that succeeds and a storage that answers
LiveWorkerStep(w) ==
    \/ WorkerReceive(w, TRUE)
    \/ ProcessAnalyze(w, "ok", TRUE)
    \/ ProcessRemove(w)

\* a pool that is started and never stopped, handlers that only enqueue, a
\* storage without failures
LiveInit == \E w \in WorkerIds, b \in BufferSizes : InitState(w, b, MaxCalls, 0)

LiveNext ==
    \/ Start(Main)
    \/ \E c \in Handlers : EnqueueStep(c, Targets)
    \/ \E w \in WorkerIds : LiveWorkerStep(w)

\* the Go scheduler runs every runnable goroutine: a worker loop that can take a
\* step eventually takes one
LiveSpec ==
    /\ LiveInit
    /\ [][LiveNext]_vars
    /\ \A w \in WorkerIds : WF_vars(LiveWorkerStep(w))

\* worker loop w of a pool that is not stopped, with an engine and a storage
\* that may fail
FaultyWorkerStep(w) ==
    \/ \E ok \in BOOLEAN : WorkerReceive(w, ok)
    \/ \E out \in EngineOutcomes, ok \in BOOLEAN : ProcessAnalyze(w, out, ok)
    \/ \E ok \in BOOLEAN : ProcessSaveFailed(w, ok)
    \/ ProcessRemove(w)

\* a pool that is started and never stopped, handlers that only enqueue, and a
\* storage that may fail twice in a row
FaultyInit ==
    \E w \in WorkerIds, b \in BufferSizes : InitState(w, b, MaxCalls, MaxFaults + 1)

FaultyNext ==
    \/ Start(Main)
    \/ \E c \in Handlers : EnqueueStep(c, Targets)
    \/ \E w \in WorkerIds : FaultyWorkerStep(w)

FaultySpec ==
    /\ FaultyInit
    /\ [][FaultyNext]_vars
    /\ \A w \in WorkerIds : WF_vars(FaultyWorkerStep(w))

\* the whole system with a storage that never fails
ReliableInit == \E w \in WorkerIds, b \in BufferSizes : InitState(w, b, MaxCalls, 0)

ReliableSpec == ReliableInit /\ [][Next]_vars

\* ------------------------------------------------------------------ DELETE /api/crawl
\* CrawlHandler.DeleteCrawlResults with a bound and validated list of ids:
\* h.storage.DeleteCrawlResults(req.IDs), one statement; 500 when it fails, 404
\* when no row was deleted, 200 otherwise. The queue is not consulted.
DeleteCrawlResultsHandler(c, ids, ok) ==
    /\ Idle(c)
    /\ ids # {}
    /\ DbCall(ok)
    /\ store' = IF ok THEN DeleteCrawlResults(store, ids) ELSE store
    /\ SetRet(c, Ret("Delete",
                     IF ~ok THEN "delete_failed"
                     ELSE IF RowsAffected(store, ids) = 0 THEN "not_found" ELSE "none",
                     0))
    /\ UNCHANGED <<config, pool, queue, tasks, activeTasks, nextId, wlocals, pc, clocals,
                   panicked, callsLeft>>

\* a pool that is started and not stopped, handlers that enqueue and delete
\* records, workers with an engine that may fail, a storage that may fail
DeleteInit == \E w \in WorkerIds, b \in BufferSizes : InitState(w, b, MaxCalls, MaxFaults)

DeleteNext ==
    \/ Start(Main)
    \/ \E c \in Handlers : EnqueueStep(c, Targets)
    \/ \E c \in Handlers, ids \in SUBSET IdSet, ok \in BOOLEAN :
          DeleteCrawlResultsHandler(c, ids, ok)
    \/ \E w \in WorkerIds : FaultyWorkerStep(w)

DeleteSpec == DeleteInit /\ [][DeleteNext]_vars

\* the system without RequeueTask: the pool's owner, handlers that only call
\* EnqueueURL (one call more than in Spec), the workers, a storage that never fails
EnqueueOnlyInit ==
    \E w \in WorkerIds, b \in BufferSizes : InitState(w, b, MaxCalls + 1, 0)

EnqueueOnlyNext ==
    \/ Alive /\ MainStep
    \/ \E c \in Handlers : Alive /\ EnqueueStep(c, Targets)
    \/ \E w \in WorkerIds : Alive /\ WorkerStep(w, EngineOutcomes)

EnqueueOnlySpec == EnqueueOnlyInit /\ [][EnqueueOnlyNext]_vars

\* capacity 2, one worker, three EnqueueURL calls of valid targets made one after
\* the other by one caller, the pool started by its owner
C7Init == InitState(1, 2, 3, 0)

C7Next ==
    \/ Start(Main)
    \/ EnqueueStep(Observed, {UrlA})
    \/ LiveWorkerStep(1)

C7Spec ==
    /\ C7Init
    /\ [][C7Next]_vars
    /\ WF_vars(Start(Main))
    /\ WF_vars(EnqueueStep(Observed, {UrlA}))
    /\ WF_vars(LiveWorkerStep(1))

\* ------------------------------------------------------------------ errors of EnqueueURL as text
\* ValidateURL: fmt.Errorf("URL cannot be empty")
ErrEmptyURL ==
    <<"U","R","L"," ","c","a","n","n","o","t"," ","b","e"," ","e","m","p","t","y">>

\* ValidateURL: fmt.Errorf("URL must start with http:// or https://")
ErrNoScheme ==
    <<"U","R","L"," ","m","u","s","t"," ","s","t","a","r","t"," ","w","i","t","h"," ",
      "h","t","t","p",":","/","/"," ","o","r"," ","h","t","t","p","s",":","/","/">>

\* ValidateURL: fmt.Errorf("potentially malicious URL pattern detected")
ErrMalicious ==
    <<"p","o","t","e","n","t","i","a","l","l","y"," ","m","a","l","i","c","i","o","u",
      "s"," ","U","R","L"," ","p","a","t","t","e","r","n"," ","d","e","t","e","c","t",
      "e","d">>

\* db.Exec: MySQL reports that the table is full
ErrTableFull ==
    <<"E","r","r","o","r"," ","1","1","1","4"," ","(","H","Y","0","0","0",")",":"," ",
      "T","h","e"," ","t","a","b","l","e"," ","'","c","r","a","w","l","_","r","e","s",
      "u","l","t","s","'"," ","i","s"," ","f","u","l","l">>

\* db.Exec: the driver lost its connection
ErrBadConn ==
    <<"i","n","v","a","l","i","d"," ","c","o","n","n","e","c","t","i","o","n">>

\* EnqueueURL: the prefix of fmt.Errorf("invalid URL: %w", err)
WrapInvalidURL ==
    <<"i","n","v","a","l","i","d"," ","U","R","L",":"," ">>

\* EnqueueURL and SaveCrawlResult: the prefix of
\* fmt.Errorf("failed to save crawl result: %w", err), applied by each
WrapSave ==
    <<"f","a","i","l","e","d"," ","t","o"," ","s","a","v","e"," ","c","r","a","w","l",
      " ","r","e","s","u","l","t",":"," ">>

\* variant: the error of the full buffer is worded like the stored message
ErrQueueFullCapital ==
    <<"Q","u","e","u","e"," ","i","s"," ","f","u","l","l",","," ","p","l","e","a","s",
      "e"," ","t","r","y"," ","a","g","a","i","n"," ","l","a","t","e","r">>

\* EnqueueURL: fmt.Errorf("queue is full, please try again later")
ErrQueueFull ==
    <<"q","u","e","u","e"," ","i","s"," ","f","u","l","l",","," ","p","l","e","a","s",
      "e"," ","t","r","y"," ","a","g","a","i","n"," ","l","a","t","e","r">>

\* CreateCrawlRequest: the text looked for in err.Error()
QueueFullNeedle ==
    <<"q","u","e","u","e"," ","i","s"," ","f","u","l","l">>

\* err.Error() of the validation errors and of the storage errors of db.Exec
ValidateErrors == {ErrEmptyURL, ErrNoScheme, ErrMalicious}
DriverErrors   == {ErrTableFull, ErrBadConn}

\* err.Error() of what EnqueueURL returns in each of its outcomes; "none" is nil
EnqueueErrorTexts ==
    [outcome \in {"invalid", "save_failed", "queue_full"} |->
        CASE outcome = "invalid"     -> {WrapInvalidURL \o e : e \in ValidateErrors}
          [] outcome = "save_failed" -> {WrapSave \o WrapSave \o e : e \in DriverErrors}
          [] outcome = "queue_full"  -> {ErrQueueFull}]

StatusCreated         == 201
StatusBadRequest      == 400
StatusTooManyRequests == 429

\* CrawlHandler.CreateCrawlRequest after EnqueueURL returned: the status of the
\* response for err = nil (hasErr false) or for an error with text errText
CreateCrawlRequest(hasErr, errText) ==
    IF hasErr
    THEN IF Contains(errText, QueueFullNeedle)
         THEN StatusTooManyRequests
         ELSE StatusBadRequest
    ELSE StatusCreated

\* the statuses CreateCrawlRequest can answer with for each outcome of EnqueueURL
CreateCrawlResponses ==
    [outcome \in {"none", "invalid", "save_failed", "queue_full"} |->
        IF outcome = "none"
        THEN {CreateCrawlRequest(FALSE, <<>>)}
        ELSE {CreateCrawlRequest(TRUE, e) : e \in EnqueueErrorTexts[outcome]}]

\* ------------------------------------------------------------------ ValidateURL alone
\* targets put together from a head and a tail
ValidateHeads ==
    { <<>>, PrefixHttp, PrefixHttps, UrlUpper,
      <<"h","t","t","p",":","/">>,
      <<"H","t","t","p","s",":","/","/">>,
      <<"f","t","p",":","/","/">>,
      <<"F","T","P",":">>,
      <<"j","a","v","a","s","c","r","i","p","t",":">>,
      <<"D","a","t","a",":">>,
      <<"f","i","l","e",":","/","/">> }
ValidateTails ==
    { <<>>, <<"a">>, <<"a",":">>,
      <<"f","t","p",":">>,
      <<"a","/","F","t","P",":","b">>,
      <<"a","?","d","a","t","a",":">>,
      <<"F","I","L","E",":">>,
      <<"j","a","v","a","S","c","r","i","p","t",":">>,
      <<"d","a","t","a">>,
      <<"f","t","p","/",":">> }
ValidateInputs == {h \o t : h \in ValidateHeads, t \in ValidateTails}

\* a caller passes url to q.crawler.ValidateURL
ValidateCall(c, url) ==
    /\ Idle(c)
    /\ pc' = [pc EXCEPT ![c] = "validate"]
    /\ curl' = [curl EXCEPT ![c] = url]
    /\ SetRet(c, NoRet)
    /\ UNCHANGED <<config, pool, queue, tasks, activeTasks, store, nextId, wlocals,
                   cid, ctask, panicked, callsLeft, faultsLeft>>

\* ValidateURL returns nil or its error to the caller
ValidateReturn(c) ==
    /\ pc[c] = "validate"
    /\ pc' = [pc EXCEPT ![c] = "idle"]
    /\ SetRet(c, Ret("Validate", IF ValidateURL(curl[c]) THEN "none" ELSE "invalid", 0))
    /\ UNCHANGED <<config, pool, queue, tasks, activeTasks, store, nextId, wlocals,
                   clocals, panicked, callsLeft, faultsLeft>>

ValidateNext ==
    \/ \E url \in ValidateInputs : ValidateCall(Observed, url)
    \/ ValidateReturn(Observed)

ValidateSpec == InitState(1, 1, 0, 0) /\ [][ValidateNext]_vars

\* ------------------------------------------------------------------ AuthMiddleware alone
\* NewAuthConfig: SkipPaths, in the order of the slice
SkipPaths == << <<"/","h","e","a","l","t","h">>, <<"/","a","p","i","/","h","e","a","l","t","h">>, <<"/">> >>

\* cfg.APIKeys of the deployment: key -> name
cfgAPIKeys == [k \in { <<"k","1">>, <<"k","3">> } |-> "client"]

\* sha256.Sum256 printed with %x: a digest of the key, taken to be free of
\* collisions
Sha256Hex(key) == <<"#">> \o key

\* NewAuthConfig / AddAPIKey: key hash -> name
APIKeys == [h \in {Sha256Hex(k) : k \in DOMAIN cfgAPIKeys} |->
               cfgAPIKeys[CHOOSE k \in DOMAIN cfgAPIKeys : Sha256Hex(k) = h]]

\* AuthConfig.shouldSkipAuth: path == skipPath || strings.HasPrefix(path, skipPath)
shouldSkipAuth(path) ==
    \E i \in 1..Len(SkipPaths) : path = SkipPaths[i] \/ HasPrefix(path, SkipPaths[i])

\* strings.SplitN(s, " ", 2)
SplitN2(s) ==
    IF \E i \in 1..Len(s) : s[i] = " "
    THEN LET i == CHOOSE j \in 1..Len(s) :
                      s[j] = " " /\ \A k \in 1..(j - 1) : s[k] # " "
         IN  << SubSeq(s, 1, i - 1), SubSeq(s, i + 1, Len(s)) >>
    ELSE << s >>

Bearer == <<"B","e","a","r","e","r">>

StatusOK           == 200
StatusUnauthorized == 401

\* c.JSON(http.StatusUnauthorized, ...): the handler is not called
Unauthorized == [status |-> StatusUnauthorized, next |-> FALSE, api_key_name |-> ""]

\* return next(c): the handler runs and answers
Passed(name) == [status |-> StatusOK, next |-> TRUE, api_key_name |-> name]

\* the function AuthMiddleware(config) wraps around a handler, for a request
\* with this URL path and this Authorization header
AuthMiddleware(path, authHeader) ==
    IF shouldSkipAuth(path) THEN Passed("")
    ELSE IF authHeader = <<>> THEN Unauthorized
    ELSE LET parts == SplitN2(authHeader)
         IN  IF Len(parts) # 2 \/ parts[1] # Bearer THEN Unauthorized
             ELSE IF parts[2] = <<>> THEN Unauthorized
             ELSE IF Sha256Hex(parts[2]) \in DOMAIN APIKeys
                  THEN Passed(APIKeys[Sha256Hex(parts[2])])
                  ELSE Unauthorized

\* URL paths of requests
AuthPaths ==
    { <<"/">>, <<"/","h","e","a","l","t","h">>, <<"/","a","p","i","/","h","e","a","l","t","h">>, <<"/","a","p","i","/","c","r","a","w","l">>, <<"/","a","p","i","/","c","r","a","w","l","/","r","e","r","u","n">>, <<"/","a","p","i","/","c","r","a","w","l","/","s","t","a","t","s">>, <<"/","h","e","a","l","t","h","z">>, <<"/","a","p","i">>, <<"/","a","p","i","/","h","e","a","l","t","h","/","x">>, <<"*">> }

\* Authorization headers of requests (the empty one: no header)
AuthHeaders ==
    { <<>>, <<"B","e","a","r","e","r"," ","k","1">>, <<"B","e","a","r","e","r"," ","k","3">>, <<"B","e","a","r","e","r"," ","k","2">>, <<"B","e","a","r","e","r">>, <<"B","e","a","r","e","r"," ">>, <<"b","e","a","r","e","r"," ","k","1">>, <<"B","a","s","i","c"," ","k","1">>, <<"k","1">>, <<"B","e","a","r","e","r"," "," ","k","1">>, <<"B","e","a","r","e","r"," ","k","1"," ">> }

\* a request passes through the middleware; the caller sees the response
AuthRequest(c, path, authHeader) ==
    /\ Idle(c)
    /\ SetRet(c, [op |-> "Auth", path |-> path, header |-> authHeader,
                  response |-> AuthMiddleware(path, authHeader)])
    /\ UNCHANGED <<config, pool, queue, tasks, activeTasks, store, nextId, wlocals, pc,
                   clocals, panicked, callsLeft, faultsLeft>>

AuthNext ==
    \E path \in AuthPaths, authHeader \in AuthHeaders : AuthRequest(Observed, path, authHeader)

AuthSpec == InitState(1, 1, 0, 0) /\ [][AuthNext]_vars

\* ------------------------------------------------------------------ observers
\* a task with this id sits in the channel buffer
Buffered(id) == \E k \in 1..Len(queue) : tasks[queue[k]].ID = id

\* task objects created with this id
TasksOf(id) == {h \in 1..Len(tasks) : tasks[h].ID = id}

\* worker w has received a task and not yet returned from processTask
Processing(w) == wpc[w] \in {"analyze", "savefail", "remove"}

\* number of live worker loops
LiveWorkers == Cardinality({w \in WorkerIds : Live(w)})

\* the id of the task worker w is processing
WorkerTaskId(w) == tasks[wtask[w]].ID

\* ------------------------------------------------------------------ Stop (C1, C2)
\* C1: a Stop() that has begun can always still return: while it waits in
\* q.wg.Wait(), either the wait is over or some worker loop can take a step
\* (so that every worker loop ends and Stop() returns).
C1_StopCanReturn ==
    pc[Main] = "s_wait" =>
        \/ ENABLED StopReturn(Main)
        \/ \E w \in WorkerIds : ENABLED WorkerStep(w, EngineOutcomes)

\* C2: the step by which Stop() returns leaves no worker loop running, and
\* from then on a worker loop runs only after a new Start().
C2_NoWorkerAfterStop ==
    [][ /\ (pc[Main] = "s_wait" /\ pc'[Main] = "idle")
            => \A w \in WorkerIds : ~Live(w)'
        /\ ((\A w \in WorkerIds : ~Live(w)) /\ (\E w \in WorkerIds : Live(w)'))
            => (~running /\ running') ]_vars

\* Stop() has returned from a pool whose workers had been spawned, with a task
\* left in the buffer
C2_Witness ==
    /\ ret[Main] = Ret("Stop", "none", 0)
    /\ \E w \in WorkerIds : wpc[w] = "exited"
    /\ queue # <<>>

\* ------------------------------------------------------------------ completion (C3)
\* C3: with a started pool that is never stopped, an engine that succeeds and a
\* storage that answers, every task admitted to the buffer leads to a state from
\* which its record is `completed` and GetActiveTask does not find it, for good.
C3_EnqueuedCompletes ==
    \A id \in IdSet :
        (running /\ Buffered(id))
            ~> [](store[id].status = CrawlStatusCompleted /\ ~GetActiveTask(id).found)

\* a task went through a worker: completed and gone from the in-flight set
C3_Witness ==
    \E id \in IdSet :
        /\ running
        /\ TasksOf(id) # {}
        /\ store[id].status = CrawlStatusCompleted
        /\ ~GetActiveTask(id).found

\* ------------------------------------------------------------------ lookup (C4)
\* C4 as stated: after EnqueueURL returned id without error, GetActiveTask(id)
\* finds the task with status queued, whatever the workers have done meanwhile.
C4_FoundQueuedAfterEnqueue ==
    \A id \in IdSet :
        ret[Observed] = Ret("Enqueue", "none", id)
            => GetActiveTask(id) = [found |-> TRUE, status |-> CrawlStatusQueued]

\* C4 amended: after EnqueueURL returned id without error, GetActiveTask(id)
\* finds the task with status queued as long as the task is still in the buffer
\* and no RequeueTask has created a second task for that id.
C4_FoundQueuedWhileBuffered ==
    \A id \in IdSet :
        (/\ ret[Observed] = Ret("Enqueue", "none", id)
         /\ Buffered(id)
         /\ Cardinality(TasksOf(id)) = 1)
            => GetActiveTask(id) = [found |-> TRUE, status |-> CrawlStatusQueued]

\* the call returned, the task waits in the buffer of a running pool whose
\* worker is busy with another task
C4_Witness ==
    \E id \in IdSet :
        /\ ret[Observed] = Ret("Enqueue", "none", id)
        /\ Buffered(id)
        /\ running
        /\ \E w \in WorkerIds : wpc[w] = "analyze" /\ WorkerTaskId(w) # id

\* ------------------------------------------------------------------ rejection (C5, C6)
\* C5 as stated: once EnqueueURL has returned the queue-full error for an
\* attempt, the record persisted for that attempt has status `error`.
C5_RejectedRecordIsError ==
    \A id \in IdSet :
        ret[Observed] = Ret("Enqueue", "queue_full", id)
            => store[id].status = CrawlStatusError

\* C5 amended: an EnqueueURL whose non-blocking send finds the open channel's
\* buffer full takes the rejection path; the steps of that path leave the buffer
\* as it is and return the queue-full error; and if the storage accepts the status
\* update, the record of the attempt has status `error` and the message
\* "Queue is full" when the call returns.
C5_QueueFullRejection ==
    [][ \A c \in Handlers :
          /\ (pc[c] = "e_send" /\ pc'[c] # "e_send" /\ ~closed /\ ChanFull)
                => pc'[c] = "e_del"
          /\ (pc[c] \in {"e_send", "e_del"} /\ pc'[c] \in {"e_del", "e_upd"} /\ pc'[c] # pc[c])
                => queue' = queue
          /\ (pc[c] = "e_upd" /\ pc'[c] = "idle")
                => /\ queue' = queue
                   /\ c \in Recorded => ret'[c] = Ret("Enqueue", "queue_full", cid[c])
                   /\ faultsLeft' = faultsLeft
                        => /\ store'[cid[c]].status = CrawlStatusError
                           /\ store'[cid[c]].err = MsgQueueFull ]_vars

\* a rejected attempt whose record was marked, the buffer still full
C5_Witness ==
    \E id \in IdSet :
        /\ ret[Observed] = Ret("Enqueue", "queue_full", id)
        /\ store[id].status = CrawlStatusError
        /\ store[id].err = MsgQueueFull
        /\ ChanFull

\* C6: a task whose EnqueueURL takes the queue-full path is at no moment in
\* the in-flight set: neither GetActiveTask nor the active-task count of
\* GetQueueStats sees it, also between the steps of that call.
C6_RejectedNeverInFlight ==
    \A c \in Handlers :
        pc[c] = "e_del"
            => /\ ~GetActiveTask(cid[c]).found
               /\ GetQueueStats.active_tasks
                    = Cardinality({i \in IdSet \ {cid[c]} : activeTasks[i] # 0})

\* ------------------------------------------------------------------ scenario (C7)
\* C7 as stated: of the three calls the first two are admitted and the third is
\* rejected with the queue-full error.
C7_ThirdRejected ==
    \A id \in IdSet :
        /\ ret[Observed] = Ret("Enqueue", "queue_full", id) => id = 3
        /\ ret[Observed] = Ret("Enqueue", "none", id) => id \in {1, 2}

\* what the scenario ends in: the admitted tasks completed and out of the
\* in-flight set, a rejected third recorded as error "Queue is full"
C7_Outcome ==
    \A id \in 1..3 :
        /\ store[id].present
        /\ ~GetActiveTask(id).found
        /\ \/ store[id].status = CrawlStatusCompleted
           \/ /\ id = 3
              /\ store[id].status = CrawlStatusError
              /\ store[id].err = MsgQueueFull

\* C7 amended: the first two calls are always admitted; the third is rejected
\* exactly when the buffer still holds two tasks at its send (the worker has
\* not received the first one yet) and is admitted otherwise; eventually every
\* admitted task is persisted as `completed`, a rejected third as `error`.
C7_AdmittedComplete ==
    /\ [][ /\ (pc[Observed] = "e_send" /\ pc'[Observed] = "e_del")
                => (cid[Observed] = 3 /\ Len(queue) = 2)
           /\ (pc[Observed] = "e_send" /\ pc'[Observed] = "idle")
                => (Len(queue) < 2 /\ ret'[Observed] = Ret("Enqueue", "none", cid[Observed])) ]_vars
    /\ <>[]C7_Outcome

\* the third call was rejected and the two admitted tasks are completed
C7_Witness ==
    /\ running
    /\ store[3].err = MsgQueueFull
    /\ store[1].status = CrawlStatusCompleted
    /\ store[2].status = CrawlStatusCompleted

\* ------------------------------------------------------------------ engine failure (C8)
\* C8 as stated: once a worker is done with a task for which the engine failed
\* with message m, the record of the task has status `error` and message m.
C8_EngineErrorRecorded ==
    \A w \in WorkerIds :
        (wpc[w] = "remove" /\ wout[w] \in EngineErrors)
            => /\ store[WorkerTaskId(w)].status = CrawlStatusError
               /\ store[WorkerTaskId(w)].err = wout[w]

\* C8 amended: when the engine fails for a task with message m and the storage
\* accepts the status update, the step leaves the record of the task with
\* status `error` and message m.
C8_EngineErrorPersisted ==
    [][ \A w \in WorkerIds :
          (/\ wpc[w] = "analyze"
           /\ wpc'[w] = "remove"
           /\ wout'[w] \in EngineErrors
           /\ faultsLeft' = faultsLeft)
              => /\ store'[WorkerTaskId(w)].status = CrawlStatusError
                 /\ store'[WorkerTaskId(w)].err = wout'[w] ]_vars

\* a worker whose engine call failed has recorded the engine's message
C8_Witness ==
    \E w \in WorkerIds :
        /\ wpc[w] = "remove"
        /\ wout[w] \in EngineErrors
        /\ store[WorkerTaskId(w)].status = CrawlStatusError
        /\ store[WorkerTaskId(w)].err = wout[w]

C10_InvalidTargetChangesNothing ==
    [][ \A url \in Targets, ok \in BOOLEAN :
          (EnqueueBegin(Observed, url, ok) /\ ~ValidateURL(url))
              => /\ ret'[Observed] = Ret("Enqueue", "invalid", 0)
                 /\ Idle(Observed)'
                 /\ UNCHANGED <<store, activeTasks, queue, tasks, nextId, clocals,
                                pool, wlocals>> ]_vars

\* the validation error was returned by a queue that holds records and tasks
C10_Witness ==
    /\ ret[Observed] = Ret("Enqueue", "invalid", 0)
    /\ \E id \in IdSet : store[id].present
    /\ queue # <<>>

\* ------------------------------------------------------------------ failed initial save (C11)
\* C11: an EnqueueURL whose SaveCrawlResult of the initial record fails returns
\* the error and admits nothing: the in-flight set, the buffer and the store are
\* as before, no task object exists for the attempt, and so no worker ever
\* processes it (an id without a record never has a task).
C11_SaveFailureAdmitsNothing ==
    /\ [][ \A url \in Targets :
             (faultsLeft' < faultsLeft /\ EnqueueBegin(Observed, url, FALSE) /\ ValidateURL(url))
                 => /\ ret'[Observed] = Ret("Enqueue", "save_failed", 0)
                    /\ Idle(Observed)'
                    /\ UNCHANGED <<activeTasks, queue, tasks, store, clocals, pool,
                                   wlocals>> ]_vars
    /\ [](\A id \in IdSet : ~store[id].present => TasksOf(id) = {})

\* the save failed while another task was waiting in the buffer
C11_Witness ==
    /\ ret[Observed] = Ret("Enqueue", "save_failed", 0)
    /\ queue # <<>>
    /\ \E id \in IdSet : id < nextId /\ ~store[id].present

\* ------------------------------------------------------------------ Start (C12)
\* C12: when the last call of the pool's owner was a Start() - the first one
\* on a pool that was not running, or any number of further ones - the pool is
\* running and exactly `workers` worker loops are live.
C12_WorkersLiveAfterStart ==
    ret[Main].op = "Start" => (running /\ LiveWorkers = workers)

\* ------------------------------------------------------------------ Stop when not running (C13)
\* C13: Stop() on a pool that is not running - never started, or stopped
\* already - returns at once and changes nothing: no cancellation, no close, no
\* wait, the running flag, the lock, the buffer, the in-flight set, the workers
\* and the store as before.
C13_StopNotRunningIsNoop ==
    [][ (~running /\ StopBegin(Main))
            => /\ Idle(Main)'
               /\ ret'[Main] = Ret("Stop", "noop", 0)
               /\ UNCHANGED <<pool, queue, tasks, activeTasks, store, wlocals,
                              panicked>> ]_vars

\* the no-op Stop() returned on a pool that had been stopped before, with a
\* task left in its buffer
C13_Witness ==
    /\ ret[Main] = Ret("Stop", "noop", 0)
    /\ closed
    /\ queue # <<>>

\* ------------------------------------------------------------------ in-flight set (C14, C15)
\* C14: every task that sits in the buffer or is being processed by a worker
\* has an entry under its id in the in-flight set.
C14_AdmittedTaskInFlight ==
    \A id \in IdSet :
        (Buffered(id) \/ \E w \in WorkerIds : Processing(w) /\ WorkerTaskId(w) = id)
            => GetActiveTask(id).found

\* C15: an entry leaves the in-flight set only by the last step of the worker
\* that processed the task of that id; no step of EnqueueURL or RequeueTask
\* removes an entry.
C15_OnlyWorkerRemoves ==
    [][ \A id \in IdSet :
          (activeTasks[id] # 0 /\ activeTasks'[id] = 0)
              => \E w \in WorkerIds :
                    /\ wpc[w] = "remove"
                    /\ wpc'[w] = "select"
                    /\ WorkerTaskId(w) = id ]_vars

\* ------------------------------------------------------------------ status order (C16)
\* the persisted status may go from `from` to `to`: a record is created
\* `queued`, an admitted task goes queued -> running -> completed or error, a
\* rejected attempt goes queued -> error "Queue is full", and a finished record
\* becomes `queued` again by a new admission
StatusStepAllowed(from, to) ==
    \/ to.status = from.status
    \/ ~from.present /\ to.status = CrawlStatusQueued
    \/ from.status = CrawlStatusQueued /\ to.status = CrawlStatusRunning
    \/ from.status = CrawlStatusQueued /\ to.status = CrawlStatusError /\ to.err = MsgQueueFull
    \/ from.status = CrawlStatusRunning /\ to.status \in {CrawlStatusCompleted, CrawlStatusError}
    \/ from.status \in {CrawlStatusCompleted, CrawlStatusError} /\ to.status = CrawlStatusQueued

\* C16: the persisted status of an id only moves along queued -> running ->
\* completed or error: it never skips `running`, never goes back from
\* completed or error to `running`, and changes from completed or error only
\* by a new admission.
C16_StatusOrder ==
    [][ \A id \in IdSet : StatusStepAllowed(store[id], store'[id]) ]_vars

\* ------------------------------------------------------------------ requeue (C17, C18)
\* C17: a RequeueTask(id) for an id with a record whose send finds room in the
\* buffer returns nil and leaves the persisted status `queued`, an in-flight
\* entry under id with the stored target and status `queued`, and that task
\* appended to the buffer.
C17_RequeueAdmits ==
    [][ (pc[Observed] = "r_send" /\ pc'[Observed] # "r_send" /\ ~ChanFull)
            => /\ ret'[Observed] = Ret("Requeue", "none", cid[Observed])
               /\ store'[cid[Observed]].status = CrawlStatusQueued
               /\ activeTasks'[cid[Observed]] # 0
               /\ tasks'[activeTasks'[cid[Observed]]]
                    = NewTask(cid[Observed], store[cid[Observed]].url)
               /\ queue' = Append(queue, activeTasks'[cid[Observed]]) ]_vars

\* C18 as stated: the step by which RequeueTask(id) returns the queue-full
\* error leaves no in-flight entry for id and the record of id with status
\* `error` and the message "Queue is full".
C18_RejectedRequeueIsError ==
    [][ (pc[Observed] = "r_err" /\ pc'[Observed] = "idle")
            => /\ ret'[Observed] = Ret("Requeue", "queue_full", cid[Observed])
               /\ activeTasks'[cid[Observed]] = 0
               /\ store'[cid[Observed]].status = CrawlStatusError
               /\ store'[cid[Observed]].err = MsgQueueFull ]_vars

\* C18 amended: a RequeueTask(id) whose non-blocking send finds the open
\* channel's buffer full takes the rejection path; the steps of that path leave
\* the buffer as it is, remove the in-flight entry of id and return the
\* queue-full error; and if the storage accepts the status update, the record
\* of id has status `error` and the message "Queue is full" when the call returns.
C18_RequeueQueueFullRejection ==
    [][ \A c \in Handlers :
          /\ (pc[c] = "r_send" /\ pc'[c] # "r_send" /\ ~closed /\ ChanFull)
                => pc'[c] = "r_del"
          /\ (pc[c] \in {"r_send", "r_del"} /\ pc'[c] \in {"r_del", "r_err"} /\ pc'[c] # pc[c])
                => queue' = queue
          /\ (pc[c] = "r_err" /\ pc'[c] = "idle")
                => /\ queue' = queue
                   /\ activeTasks'[cid[c]] = 0
                   /\ c \in Recorded => ret'[c] = Ret("Requeue", "queue_full", cid[c])
                   /\ faultsLeft' = faultsLeft
                        => /\ store'[cid[c]].status = CrawlStatusError
                           /\ store'[cid[c]].err = MsgQueueFull ]_vars

\* a rejected requeue whose record was marked, the buffer still full
C18_Witness ==
    \E id \in IdSet :
        /\ ret[Observed] = Ret("Requeue", "queue_full", id)
        /\ store[id].status = CrawlStatusError
        /\ store[id].err = MsgQueueFull
        /\ ~GetActiveTask(id).found
        /\ ChanFull

\* ------------------------------------------------------------------ shutdown (C19)
\* C19: once Stop() has closed the channel and every worker of the pool has
\* exited, no task is left in the buffer: whatever was buffered at the close was
\* dequeued by some worker before the workers exited.
C19_BufferDrainedAtExit ==
    (closed /\ \A w \in WorkerIds : w <= workers => wpc[w] = "exited")
        => queue = <<>>

\* ------------------------------------------------------------------ engine calls (C20)
\* number of AnalyzeURL calls made for task object h
EngineCalls(h) == Cardinality({i \in 1..Len(engineLog) : engineLog[i] = h})

\* number of AnalyzeURL calls made for tasks of this id
EngineCallsOfId(id) == Cardinality({i \in 1..Len(engineLog) : tasks[engineLog[i]].ID = id})

\* C20 as stated, the part about the final status: the step by which a worker
\* learns that the engine call failed, and the step that follows a failed final
\* save, leave the record of the task with status `error`.
C20_FailedTaskEndsInError ==
    [][ \A w \in WorkerIds :
          /\ (wpc[w] = "analyze" /\ wpc'[w] = "remove" /\ wout'[w] \in EngineErrors)
                => store'[WorkerTaskId(w)].status = CrawlStatusError
          /\ (wpc[w] = "savefail" /\ wpc'[w] = "remove")
                => store'[WorkerTaskId(w)].status = CrawlStatusError ]_vars

\* C20 amended: the engine is called exactly once for every task a worker has
\* dequeued, and never for a task that was not dequeued: no task is analysed
\* twice, a task in processTask past the engine call has exactly one call and
\* one before it has none, and only a worker at the engine call adds a call.
\* A further call for an id needs a further task object of that id, which only
\* RequeueTask creates. A task whose engine call or final save failed is not
\* re-run, and its record has status `error` after the worker's status update
\* if the storage accepts that update.
C20_EngineOncePerAdmission ==
    /\ [](\A h \in 1..Len(tasks) : EngineCalls(h) <= 1)
    /\ [](\A i \in 1..Len(engineLog) :
            /\ engineLog[i] \in 1..Len(tasks)
            /\ \A k \in 1..Len(queue) : queue[k] # engineLog[i])
    /\ [](\A w \in WorkerIds :
            /\ wpc[w] = "analyze" => EngineCalls(wtask[w]) = 0
            /\ wpc[w] \in {"savefail", "remove"} => EngineCalls(wtask[w]) = 1)
    /\ [](\A id \in IdSet : EngineCallsOfId(id) <= Cardinality(TasksOf(id)))
    /\ [][ /\ engineLog' # engineLog
                => \E w \in WorkerIds :
                      /\ wpc[w] = "analyze" /\ wpc'[w] \in {"savefail", "remove"}
                      /\ engineLog' = Append(engineLog, wtask[w])
           /\ \A id \in IdSet :
                (TasksOf(id) # {} /\ TasksOf(id)' # TasksOf(id))
                    => \E c \in Handlers : pc[c] = "r_add" /\ cid[c] = id
           /\ \A w \in WorkerIds :
                /\ (wpc[w] = "analyze" /\ wpc'[w] = "remove" /\ wout'[w] \in EngineErrors
                        /\ faultsLeft' = faultsLeft)
                      => store'[WorkerTaskId(w)].status = CrawlStatusError
                /\ (wpc[w] = "savefail" /\ wpc'[w] = "remove" /\ faultsLeft' = faultsLeft)
                      => store'[WorkerTaskId(w)].status = CrawlStatusError
                /\ (wpc[w] \in {"savefail", "remove"} /\ wpc'[w] # wpc[w])
                      => /\ wpc'[w] \in {"remove", "select"}
                         /\ queue' = queue
                         /\ engineLog' = engineLog ]_vars

\* an id analysed twice, once per admission, the pool idle again and the record
\* left in `error` by a failed engine call
C20_Witness ==
    \E id \in IdSet :
        /\ EngineCallsOfId(id) = 2
        /\ Cardinality(TasksOf(id)) = 2
        /\ \A w \in WorkerIds : ~Processing(w)
        /\ store[id].status = CrawlStatusError
        /\ store[id].err \in EngineErrors

\* ------------------------------------------------------------------ ValidateURL (C21)
\* the target starts, case-insensitively, with p
StartsWithFold(url, p) ==
    /\ Len(url) >= Len(p)
    /\ \A k \in 1..Len(p) : LowerChar(url[k]) = p[k]

\* p occurs, case-insensitively, somewhere in the target
OccursFold(url, p) ==
    \E i \in 1..Len(url) :
        /\ i + Len(p) - 1 <= Len(url)
        /\ \A k \in 1..Len(p) : LowerChar(url[i + k - 1]) = p[k]

\* C21 as stated: ValidateURL returns an error exactly when the target is
\* empty, or starts with neither http:// nor https://, or starts
\* (case-insensitively) with one of javascript:, data:, file:, ftp:.
C21_RejectsExactlyByPrefix ==
    ret[Observed].op = "Validate"
        => (ret[Observed].err = "invalid"
              <=> \/ curl[Observed] = <<>>
                  \/ ~(HasPrefix(curl[Observed], PrefixHttp) \/ HasPrefix(curl[Observed], PrefixHttps))
                  \/ \E p \in maliciousPatterns : StartsWithFold(curl[Observed], p))

\* C21 amended: ValidateURL returns an error exactly when the target is empty,
\* or starts with neither http:// nor https:// (in exactly this case), or
\* contains, at any position and in any case, one of javascript:, data:,
\* file:, ftp:. Every other target is accepted.
C21_RejectsExactlyByOccurrence ==
    ret[Observed].op = "Validate"
        => (ret[Observed].err = "invalid"
              <=> \/ curl[Observed] = <<>>
                  \/ ~(HasPrefix(curl[Observed], PrefixHttp) \/ HasPrefix(curl[Observed], PrefixHttps))
                  \/ \E p \in maliciousPatterns : OccursFold(curl[Observed], p))

\* a target with the required prefix was rejected for a pattern further in, in
\* mixed case
C21_Witness ==
    /\ ret[Observed] = Ret("Validate", "invalid", 0)
    /\ HasPrefix(curl[Observed], PrefixHttps)
    /\ \E p \in maliciousPatterns :
          /\ OccursFold(curl[Observed], p)
          /\ ~Contains(curl[Observed], p)

\* ------------------------------------------------------------------ HTTP status of a create request (C22)
\* C22: whatever EnqueueURL returned to the create handler (a call that panics
\* returns nothing), the handler answers
\* 429 if and only if EnqueueURL failed on a full buffer, 201 if it succeeded,
\* and 400 if it failed in validation or in saving the initial record.
C22_CreateStatusByOutcome ==
    (ret[Observed].op = "Enqueue" /\ ret[Observed].err # "panic")
        => /\ StatusTooManyRequests \in CreateCrawlResponses[ret[Observed].err]
                <=> ret[Observed].err = "queue_full"
           /\ CreateCrawlResponses[ret[Observed].err] =
                CASE ret[Observed].err = "queue_full" -> {StatusTooManyRequests}
                  [] ret[Observed].err = "none"       -> {StatusCreated}
                  [] OTHER                            -> {StatusBadRequest}

\* a create request was answered 429 after the buffer was found full
C22_Witness ==
    /\ ret[Observed].op = "Enqueue"
    /\ ret[Observed].err = "queue_full"
    /\ ChanFull
    /\ CreateCrawlResponses[ret[Observed].err] = {StatusTooManyRequests}

\* ------------------------------------------------------------------ failed update to running (C23)
\* C23 as stated: a worker whose update to `running` failed still persists the
\* final outcome: when it is done with the task, the record is no longer
\* `queued`.
C23_OutcomePersistedAfterFailure ==
    [][ \A w \in WorkerIds :
          (wpc[w] = "remove" /\ wpc'[w] = "select")
              => store[WorkerTaskId(w)].status # CrawlStatusQueued ]_vars

\* C23 amended: a failed update to `running` does not end the processing of the
\* task: a task that leaves the buffer is held by a worker at the engine call
\* whether that update succeeded or not, the engine
\* is called once for it, the outcome is persisted if the storage accepts that
\* later write (if it fails too, the record stays `queued`), and the in-flight
\* entry is removed.
C23_RunningFailureNotFatal ==
    /\ [][ (queue # <<>> /\ queue' = Tail(queue))
              => \E w \in WorkerIds :
                    /\ wpc[w] = "select" /\ wpc'[w] = "analyze"
                    /\ wtask'[w] = Head(queue) ]_vars
    /\ [][ \A w \in WorkerIds :
             /\ (wpc[w] = "select" /\ wpc'[w] # "select" /\ faultsLeft' < faultsLeft)
                   => /\ wpc'[w] = "analyze"
                      /\ wtask'[w] = Head(queue)
                      /\ store' = store
             /\ (/\ wpc[w] = "analyze"
                 /\ wpc'[w] # "analyze"
                 /\ store[WorkerTaskId(w)].status = CrawlStatusQueued)
                   => /\ engineLog' = Append(engineLog, wtask[w])
                      /\ faultsLeft' = faultsLeft
                           => store'[WorkerTaskId(w)].status
                                 \in {CrawlStatusCompleted, CrawlStatusError} ]_vars
    /\ \A w \in WorkerIds, h \in 1..MaxCalls :
          (/\ wpc[w] = "analyze"
           /\ wtask[w] = h
           /\ store[tasks[h].ID].status = CrawlStatusQueued)
              ~> (/\ h <= Len(tasks)
                  /\ EngineCalls(h) = 1
                  /\ wtask[w] # h
                  /\ activeTasks[tasks[h].ID] = 0)

\* the only task went through the worker although its update to `running` was
\* the storage call that failed: analysed, completed, about to leave the
\* in-flight set
C23_Witness ==
    \E w \in WorkerIds :
        /\ wpc[w] = "remove"
        /\ nextId = 2
        /\ faultsLeft = MaxFaults
        /\ EngineCalls(wtask[w]) = 1
        /\ store[WorkerTaskId(w)].status = CrawlStatusCompleted

\* ------------------------------------------------------------------ failed final save (C24)
\* C24 as stated: when the engine succeeded and SaveCrawlResult failed, the
\* worker's next step leaves the record of the task with status `error` and the
\* message "Failed to save crawl result".
C24_SaveFailureRecorded ==
    [][ \A w \in WorkerIds :
          (wpc[w] = "savefail" /\ wpc'[w] # "savefail")
              => /\ store'[WorkerTaskId(w)].status = CrawlStatusError
                 /\ store'[WorkerTaskId(w)].err = MsgSaveFailed ]_vars

\* C24 amended: when the engine succeeded and SaveCrawlResult failed, the record
\* was not changed by the save; the worker then calls UpdateCrawlStatus once,
\* and if the storage accepts it the record has status `error` and the message
\* "Failed to save crawl result"; if not, the record is as it was. Neither
\* step writes `completed`.
C24_SaveFailureOverridden ==
    [][ \A w \in WorkerIds :
          /\ (/\ wpc[w] = "analyze" /\ wpc'[w] # "analyze"
              /\ wout'[w] = "ok" /\ faultsLeft' < faultsLeft)
                => /\ wpc'[w] = "savefail"
                   /\ store' = store
          /\ (wpc[w] = "savefail" /\ wpc'[w] # "savefail")
                => /\ wpc'[w] = "remove"
                   /\ faultsLeft' = faultsLeft
                        => /\ store'[WorkerTaskId(w)].status = CrawlStatusError
                           /\ store'[WorkerTaskId(w)].err = MsgSaveFailed
                   /\ faultsLeft' < faultsLeft => store' = store ]_vars

\* the engine succeeded for the task and its record says that the save failed
C24_Witness ==
    \E w \in WorkerIds :
        /\ wpc[w] = "remove"
        /\ wout[w] = "ok"
        /\ store[WorkerTaskId(w)].status = CrawlStatusError
        /\ store[WorkerTaskId(w)].err = MsgSaveFailed

\* ------------------------------------------------------------------ key of the saved result (C25)
\* C25: a worker that saves the result of a successful engine call writes the
\* row of the task's id, with status `completed`, and no other row, in
\* particular none under the id the engine generated; and every row of the
\* store has an id that EnqueueURL generated.
C25_ResultKeyedByTaskId ==
    /\ [][ \A w \in WorkerIds :
             (/\ wpc[w] = "analyze" /\ wpc'[w] = "remove"
              /\ wout'[w] = "ok")
                => /\ store'[WorkerTaskId(w)].present
                   /\ store'[WorkerTaskId(w)].status = CrawlStatusCompleted
                   /\ \A i \in StoreIds \ {WorkerTaskId(w)} : store'[i] = store[i] ]_vars
    /\ [](\A i \in StoreIds : store[i].present => (i \in IdSet /\ i < nextId))

\* a result was saved: the row of the task is `completed` and there is no row
\* under the engine's id
C25_Witness ==
    \E w \in WorkerIds :
        /\ wpc[w] = "remove"
        /\ wout[w] = "ok"
        /\ store[WorkerTaskId(w)].status = CrawlStatusCompleted
        /\ ~store[EngineUuid(WorkerTaskId(w))].present

\* ------------------------------------------------------------------ cancellation during a task (C26)
\* C26: a worker that has dequeued a task runs processTask to its end also when
\* Stop() signals cancellation meanwhile: having persisted the final status, it
\* can take q.mu for the in-flight removal (it is not held by a Stop() that
\* waits for this worker).
C26_TaskRunsToRemoval ==
    \A w \in WorkerIds : wpc[w] = "remove" => ENABLED ProcessRemove(w)

\* ------------------------------------------------------------------ worker and q.mu (C27)
\* C27: a worker's engine call and storage calls neither wait for q.mu nor
\* take it: a worker about to update the status, to call the engine or to
\* persist the outcome can do so whoever holds q.mu, and those steps leave q.mu
\* as it is; a worker at its select waits only for a task, the close of the
\* channel or the cancellation; only the in-flight removal needs q.mu, and it
\* has released it when the step is done.
C27_NoLockAroundEngineOrStore ==
    /\ [](\A w \in WorkerIds :
            /\ wpc[w] = "select"
                 => (ENABLED WorkerStep(w, EngineOutcomes)
                        <=> (queue # <<>> \/ closed \/ cancelled))
            /\ wpc[w] = "analyze"
                 => ENABLED (\E out \in EngineOutcomes : ProcessAnalyze(w, out, TRUE))
            /\ wpc[w] = "savefail" => ENABLED ProcessSaveFailed(w, TRUE)
            /\ wpc[w] = "remove" => (ENABLED ProcessRemove(w) <=> MuFree))
    /\ [][ \A w \in WorkerIds : (Live(w) /\ wpc'[w] # wpc[w]) => mu' = mu ]_vars

\* a worker is at its engine call while Stop() holds q.mu
C27_Witness ==
    \E w \in WorkerIds :
        /\ wpc[w] = "analyze"
        /\ mu = Main
        /\ ENABLED (\E out \in EngineOutcomes : ProcessAnalyze(w, out, TRUE))

\* ------------------------------------------------------------------ order of the buffer (C28)
\* task objects a worker has taken from the buffer
Dequeued ==
    {wtask[w] : w \in {x \in WorkerIds : Processing(x)}}
        \cup {engineLog[i] : i \in 1..Len(engineLog)}

\* C28: with one producer, whose calls create the task objects 1, 2, ... in the
\* order in which they return: the buffer holds the admitted tasks in that
\* order, a worker always takes the oldest one, so every task taken from the
\* buffer was admitted before every task still in it; and with one worker the
\* engine is called for the tasks in the order of their admission.
C28_FifoForOneProducer ==
    /\ [](\A i, j \in 1..Len(queue) : i < j => queue[i] < queue[j])
    /\ [](\A a \in Dequeued : \A k \in 1..Len(queue) : a < queue[k])
    /\ [](workers = 1
            => \A i, j \in 1..Len(engineLog) : i < j => engineLog[i] < engineLog[j])
    /\ [][ Len(queue') < Len(queue)
             => /\ queue' = Tail(queue)
                /\ \E w \in WorkerIds : wtask'[w] = Head(queue) /\ wtask[w] = 0 ]_vars

\* one worker has called the engine for two tasks, the older one first
C28_Witness ==
    /\ workers = 1
    /\ Len(engineLog) = 2
    /\ engineLog[1] < engineLog[2]
    /\ bufferSize = 2

\* ------------------------------------------------------------------ tasks left in the buffer (C29)
\* C29: once Stop() has returned (it returns no error), the tasks its workers
\* left in the buffer stay there and their records stay as they are: such a
\* task is never processed and never marked `error`.
C29_LeftoverNeverProcessed ==
    [][ (closed /\ pc[Main] = "idle")
            => /\ queue' = queue
               /\ \A k \in 1..Len(queue) :
                     store'[tasks[queue[k]].ID] = store[tasks[queue[k]].ID] ]_vars

\* ------------------------------------------------------------------ send after Stop (C30)
\* C30: EnqueueURL and RequeueTask never send on a closed channel: whenever
\* one of them executes its send, the channel is open, the call goes on to
\* return a task or an error, and no goroutine panics.
C30_NoSendOnClosedChannel ==
    [][ \A c \in Handlers :
          (pc[c] \in {"e_send", "r_send"} /\ pc'[c] # pc[c])
              => /\ ~closed
                 /\ ~panicked'
                 /\ c \in Recorded => ret'[c].err # "panic" ]_vars

\* ------------------------------------------------------------------ second Stop (C31)
\* C31: over any sequence of Start() and Stop() calls the channel is closed at
\* most once: a Stop() that gets past its running check finds the channel open
\* and does not panic.
C31_ChannelClosedAtMostOnce ==
    [][ (running /\ StopBegin(Main)) => (~closed /\ ~panicked') ]_vars

\* ------------------------------------------------------------------ running flag and worker loops (C32)
\* C32: whenever q.running is true and no Stop() is in progress, exactly
\* q.workers worker loops are live, also on a pool that was stopped and started
\* again.
C32_RunningMeansWorkersLive ==
    (running /\ pc[Main] = "idle") => LiveWorkers = workers

\* ------------------------------------------------------------------ one worker per id (C33)
\* C33: at any time at most one worker is processing a task of a given id.
C33_OneWorkerPerId ==
    \A w1, w2 \in WorkerIds :
        (w1 # w2 /\ Processing(w1) /\ Processing(w2))
            => WorkerTaskId(w1) # WorkerTaskId(w2)

\* ------------------------------------------------------------------ rejected requeue of an id in flight (C34)
\* an earlier admission of id is still buffered or with a worker, the task of
\* handler c's running call apart
EarlierInFlight(c, id) ==
    \/ \E k \in 1..Len(queue) : queue[k] # ctask[c] /\ tasks[queue[k]].ID = id
    \/ \E w \in WorkerIds : Processing(w) /\ WorkerTaskId(w) = id

\* C34: the return of a RequeueTask(id) that was rejected for a full buffer
\* leaves an earlier admission of id that is still buffered or running with
\* its in-flight entry, and does not write the queue-full error over its
\* status.
C34_RejectedRequeueLeavesEarlierTask ==
    [][ \A c \in Handlers :
          (pc[c] = "r_err" /\ pc'[c] = "idle" /\ EarlierInFlight(c, cid[c]))
              => /\ activeTasks'[cid[c]] # 0
                 /\ ~(/\ store'[cid[c]].status = CrawlStatusError
                      /\ store'[cid[c]].err = MsgQueueFull) ]_vars

\* ------------------------------------------------------------------ no leak of in-flight entries (C35)
\* C35: in every state where the buffer is empty, no worker has a task in hand
\* and no EnqueueURL or RequeueTask call is in progress, q.activeTasks is empty.
C35_InFlightSetDoesNotLeak ==
    (/\ queue = <<>>
     /\ \A w \in WorkerIds : ~Processing(w)
     /\ \A c \in Handlers : Idle(c))
        => \A id \in IdSet : activeTasks[id] = 0

\* ------------------------------------------------------------------ sizes of buffer and in-flight set (C36)
\* EnqueueURL calls between their entry into q.activeTasks and their return
EnqueueInProgress ==
    Cardinality({c \in Handlers : pc[c] \in {"e_send", "e_del", "e_upd"}})

\* C36: the buffer never holds more tasks than its capacity and, with no
\* RequeueTask in use, never more than q.activeTasks has entries, which are at
\* most capacity + workers + the EnqueueURL calls in progress.
C36_BufferAndInFlightSizes ==
    /\ GetQueueStats.queue_length <= bufferSize
    /\ GetQueueStats.queue_length <= GetQueueStats.active_tasks
    /\ GetQueueStats.active_tasks <= bufferSize + workers + EnqueueInProgress

\* ------------------------------------------------------------------ status of in-flight tasks (C37)
\* C37: the task of every entry of q.activeTasks has status queued or running;
\* every task in the buffer has status queued; and the status of a task goes
\* from queued to running only in the step in which a worker takes the task
\* out of the buffer.
C37_InFlightStatusQueuedOrRunning ==
    /\ [](\A id \in IdSet :
            GetActiveTask(id).found
                => GetActiveTask(id).status \in {CrawlStatusQueued, CrawlStatusRunning})
    /\ [](\A k \in 1..Len(queue) : tasks[queue[k]].Status = CrawlStatusQueued)
    /\ [][ \A h \in 1..Len(tasks) :
             (tasks[h].Status = CrawlStatusQueued /\ tasks'[h].Status = CrawlStatusRunning)
                 => /\ queue # <<>>
                    /\ Head(queue) = h
                    /\ queue' = Tail(queue)
                    /\ \E w \in WorkerIds : wtask[w] = 0 /\ wtask'[w] = h ]_vars

\* one in-flight task waits in the buffer as queued while another is in a
\* worker's hands as running
C37_Witness ==
    \E i, j \in IdSet :
        /\ i # j
        /\ Buffered(i)
        /\ GetActiveTask(i) = [found |-> TRUE, status |-> CrawlStatusQueued]
        /\ \E w \in WorkerIds : Processing(w) /\ WorkerTaskId(w) = j
        /\ GetActiveTask(j) = [found |-> TRUE, status |-> CrawlStatusRunning]

\* ------------------------------------------------------------------ persisted status of a finished task (C38)
\* C38 as stated: when a worker removes a finished task from q.activeTasks, the
\* record of the task has status completed or error, whatever storage calls of
\* the worker failed.
C38_FinishedTaskIsCompletedOrError ==
    [][ \A w \in WorkerIds :
          (wpc[w] = "remove" /\ wpc'[w] = "select")
              => store'[WorkerTaskId(w)].status
                    \in {CrawlStatusCompleted, CrawlStatusError} ]_vars

\* C38 amended: every write a worker issues for a task after the engine call is
\* a write of completed or error; right after such a write that the storage
\* accepted the record has status completed or error; a write the storage
\* refused leaves the record as it was (running, or queued when the update to
\* running had failed as well); and the worker removes the entry from
\* q.activeTasks in either case, writing nothing in that step.
C38_OutcomeWriteDecidesStatus ==
    [][ \A w \in WorkerIds :
          /\ (wpc[w] \in {"analyze", "savefail"} /\ wpc'[w] # wpc[w])
                => /\ faultsLeft' = faultsLeft
                        => store'[WorkerTaskId(w)].status
                              \in {CrawlStatusCompleted, CrawlStatusError}
                   /\ faultsLeft' < faultsLeft
                        => /\ store' = store
                           /\ wpc'[w] \in {"savefail", "remove"}
                   /\ \A i \in StoreIds :
                         store'[i].status \in {CrawlStatusQueued, CrawlStatusRunning}
                             => store'[i] = store[i]
          /\ (wpc[w] = "remove" /\ wpc'[w] # "remove")
                => /\ store' = store
                   /\ activeTasks'[WorkerTaskId(w)] = 0 ]_vars

\* the engine failed for a task whose update to running the storage had
\* refused, the update to error was accepted, and the worker is about to remove
\* the entry
C38_Witness ==
    \E w \in WorkerIds :
        /\ wpc[w] = "remove"
        /\ wout[w] \in EngineErrors
        /\ faultsLeft = MaxFaults
        /\ store[WorkerTaskId(w)].status = CrawlStatusError
        /\ store[WorkerTaskId(w)].err = wout[w]

\* ------------------------------------------------------------------ deleted records (C39)
\* C39: the record of an id that EnqueueURL has issued and that is no longer in
\* the store (DeleteCrawlResults removed it) is not created again by any step.
C39_DeletedRecordStaysDeleted ==
    [][ \A i \in IdSet :
          (i < nextId /\ ~store[i].present) => ~store'[i].present ]_vars

\* ------------------------------------------------------------------ requests without a valid key (C40)
\* the Authorization header is "Bearer " followed by a configured API key
ValidBearer(authHeader) ==
    \E k \in DOMAIN cfgAPIKeys : authHeader = Bearer \o <<" ">> \o k

\* C40: a request whose Authorization header is not a valid Bearer key reaches
\* its handler only when its path is "/", "/health" or "/api/health"; with any
\* other path it is answered 401 and the handler is not run.
C40_OnlySkipPathsPassWithoutKey ==
    (ret[Observed].op = "Auth" /\ ~ValidBearer(ret[Observed].header))
        => IF \E i \in 1..Len(SkipPaths) : ret[Observed].path = SkipPaths[i]
           THEN ret[Observed].response.next
           ELSE /\ ~ret[Observed].response.next
                /\ ret[Observed].response.status = StatusUnauthorized

====
